---- MODULE Spec2Model ----
(***************************************************************************)
(* A model of boomLogger (BoomLog.hpp, UnitTest.cpp): the Event record and *)
(* its text rendering, the Stream level filter, the concrete streams, and  *)
(* the Log singleton with its name-to-stream registry and its dispatch.    *)
(*                                                                         *)
(* Text is modelled as a sequence of one-character strings, so that the    *)
(* rendering of an event can be inspected position by position.            *)
(*                                                                         *)
(* Specifications:                                                         *)
(*   Spec        a build without _DEBUG; the caller has a TestStream and a *)
(*               ConsoleStream of its own                                  *)
(*   SpecBuilds  both builds; the caller has a TestStream                  *)
(*   SpecThrow   as Spec, the caller's second stream has a handle that     *)
(*               throws                                                    *)
(*   SpecArchive a build without _DEBUG; the caller has an ArchiveStream   *)
(*               whose events are followed                                 *)
(*   SpecFile    a build without _DEBUG; the contents of log.txt are       *)
(*               followed and the file may fail to open                    *)
(*   SpecThreads the functions of Log called from two threads, statement   *)
(*               by statement                                              *)
(*   SpecCall    Stream::call alone, over all masks and levels             *)
(*   SpecRender  Event::toString alone, over a set of events               *)
(*                                                                         *)
(* The specifications other than SpecThreads take a call of a function of  *)
(* Log as one step of a single thread; they leave logs, current and        *)
(* threads at their initial values. Only SpecFile follows disk.            *)
(***************************************************************************)
EXTENDS Integers, Sequences, FiniteSets, TLC

VARIABLES
    debugBuild,   \* whether _DEBUG is set at compile time, i.e. SHOW_DEBUG is defined
    userStreams,  \* the Stream objects the calling program has constructed
    fileOpens,    \* the outcomes that opening log.txt can have: TRUE is open
    instance,     \* Log::instance != nullptr
    streams,      \* Log::streams, the std::map from name to Stream*
    showDebug,    \* Log::showDebug
    levels,       \* Stream::levels of every Stream object
    e,            \* TestStream::e of the TestStream object
    op,           \* the call made last
    ret,          \* what the last call returned
    handled,      \* the Stream objects whose handle ran in the last call, in order
    raised,       \* whether the last call left by an exception
    rendered,     \* the text Event::toString returned last
    file,         \* what the last call appended to log.txt, one entry per write
    cout,         \* what the last call wrote to std::cout, one entry per write
    events,       \* ArchiveStream::events of the ArchiveStream object
    disk,         \* the writes log.txt holds, oldest first, where they are followed
    is_open,      \* whether a std::fstream of the last call is open after the call
    logs,         \* the Log objects that new Log() has made, each one its streams
    current,      \* the Log object that Log::instance points to, 0 for nullptr
    threads       \* what every thread of the calling program is at

vars == <<debugBuild, userStreams, fileOpens, instance, streams, showDebug, levels, e, op,
          ret, handled, raised, rendered, file, cout, events, disk,
          is_open, logs, current, threads>>

-----------------------------------------------------------------------------
(* enum LEVELS and ALL_LEVELS *)

DBG == 1
INFO == 2
WARNING == 4
ERR == 8
CRITICAL == 16
ALL_LEVELS == 31

LEVELS == {DBG, INFO, WARNING, ERR, CRITICAL}

(* The bitwise operators of C++ on non-negative ints. *)
RECURSIVE BitAnd(_, _)
BitAnd(a, b) ==
    IF a = 0 \/ b = 0 THEN 0
    ELSE (a % 2) * (b % 2) + 2 * BitAnd(a \div 2, b \div 2)

RECURSIVE BitOr(_, _)
BitOr(a, b) ==
    IF a = 0 THEN b
    ELSE IF b = 0 THEN a
    ELSE (IF a % 2 = 1 \/ b % 2 = 1 THEN 1 ELSE 0) + 2 * BitOr(a \div 2, b \div 2)

-----------------------------------------------------------------------------
(* Text *)

Empty == <<>>
info_msg == <<"i", "n", "f", "o", "_", "m", "s", "g">>
TestMessage == <<"T", "e", "s", "t", " ", "M", "e", "s", "s", "a", "g", "e">>
UnitTest == <<"U", "n", "i", "t", "T", "e", "s", "t">>
C0001 == <<"C", "0", "0", "0", "1">>
C0002 == <<"C", "0", "0", "0", "2">>

DigitChar == <<"0", "1", "2", "3", "4", "5", "6", "7", "8", "9">>

(* operator<< of an int: its decimal digits, without padding *)
RECURSIVE Decimal(_)
Decimal(n) ==
    IF n < 10 THEN <<DigitChar[n + 1]>>
    ELSE Decimal(n \div 10) \o <<DigitChar[(n % 10) + 1]>>

(* a two-digit field of std::put_time (%m %d %H %M %S): zero padded *)
TwoDigits(n) == <<DigitChar[((n \div 10) % 10) + 1], DigitChar[(n % 10) + 1]>>

-----------------------------------------------------------------------------
(* Event *)

(* A timestamp is held as the struct tm that localtime_s makes of it:      *)
(* tm_year counts from 1900 and tm_mon from 0.                             *)
Tm(y, mo, d, h, mi, s) ==
    [tm_year |-> y - 1900, tm_mon |-> mo - 1, tm_mday |-> d,
     tm_hour |-> h, tm_min |-> mi, tm_sec |-> s]

Y2K == Tm(2000, 1, 1, 12, 0, 0)
Epoch == Tm(1970, 1, 1, 0, 0, 0)

(* Event::Event(level, msg, source, code, timestamp) *)
Event(level, msg, source, code, timestamp) ==
    [level |-> level, msg |-> msg, source |-> source, code |-> code,
     timestamp |-> timestamp]

(* Event::Event(): level INFO, empty strings, a value-initialised time_point *)
DefaultEvent == Event(INFO, Empty, Empty, Empty, Epoch)

(* the switch of Event::toString *)
LevelSymbol(level) ==
    CASE level = DBG -> <<" ", "#", " ">>
      [] level = INFO -> <<" ", " ", " ">>
      [] level = WARNING -> <<" ", "!", " ">>
      [] level = ERR -> <<"!", "!", " ">>
      [] level = CRITICAL -> <<"!", "!", "!">>
      [] OTHER -> Empty

(* PutTime that prints tm_mon as it is stored, counted from 0 *)
PutTimeRawMonth(tm) ==
    Decimal(tm.tm_year + 1900) \o <<"/">> \o TwoDigits(tm.tm_mon) \o <<"/">>
    \o TwoDigits(tm.tm_mday) \o <<"/">> \o TwoDigits(tm.tm_hour) \o <<":">>
    \o TwoDigits(tm.tm_min) \o <<":">> \o TwoDigits(tm.tm_sec)
    \o <<" ", "-", " ">>

(* std::put_time(&output, "%Y/%m/%d/%H:%M:%S - ") *)
PutTime(tm) ==
    Decimal(tm.tm_year + 1900) \o <<"/">> \o TwoDigits(tm.tm_mon + 1) \o <<"/">>
    \o TwoDigits(tm.tm_mday) \o <<"/">> \o TwoDigits(tm.tm_hour) \o <<":">>
    \o TwoDigits(tm.tm_min) \o <<":">> \o TwoDigits(tm.tm_sec)
    \o <<" ", "-", " ">>

(* Event::toString *)
toString(ev) ==
    LevelSymbol(ev.level) \o PutTime(ev.timestamp)
    \o (IF ev.code # Empty THEN <<"[">> \o ev.code \o <<"]", " ">> ELSE Empty)
    \o ev.msg
    \o (IF ev.source # Empty
        THEN <<" ", "(", "f", "r", "o", "m", " ">> \o ev.source \o <<")">>
        ELSE Empty)

-----------------------------------------------------------------------------
(* Stream and its subclasses *)

(* The Stream objects of a run: the two that Log::getInstance makes, and   *)
(* those the calling program makes: a TestStream (UnitTest.cpp), a         *)
(* ConsoleStream of its own, an ArchiveStream, and a Stream subclass whose  *)
(* handle throws.                                                          *)
DefaultFile == "file0"
DefaultConsole == "con0"
TestStreams == {"t1"}
ConsoleStreams == {"con0", "c2"}
TextFileStreams == {"file0"}
ArchiveStreams == {"a1"}
ThrowingStreams == {"bad"}
DefaultObjects == {DefaultFile, DefaultConsole}
AllStreams ==
    TestStreams \cup ConsoleStreams \cup TextFileStreams \cup ArchiveStreams
    \cup ThrowingStreams

nullptr == "nullptr"
void == "void"

(* StreamCtor with the highest level in place of all of them *)
StreamCtorCritical == CRITICAL

(* Stream::Stream(): levels(ALL_LEVELS) *)
StreamCtor == ALL_LEVELS

(* Accepts with the levels read as a threshold *)
AcceptsThreshold(mask, level) == mask >= level

(* the test of Stream::call *)
Accepts(mask, level) == BitAnd(mask, level) = level

(* the names of the registry, in the order std::map<std::string, ...>      *)
(* iterates them: by operator< of std::string, upper case first            *)
NameOrder == <<"Test", "defaultConsole", "defaultTextFile">>
Names == {NameOrder[i] : i \in 1..Len(NameOrder)}

(* the result std::map::find gives Log::getStream *)
Lookup(map, name) == IF name \in DOMAIN map THEN map[name] ELSE nullptr

(* Assign as std::map::insert does it: an existing entry is kept *)
AssignKeepsOld(map, name, stream) ==
    [n \in DOMAIN map \cup {name} |-> IF n \in DOMAIN map THEN map[n] ELSE stream]

(* Assign into a map that has been cleared *)
AssignAlone(map, name, stream) == [n \in {name} |-> stream]

(* std::map::operator[] followed by an assignment *)
Assign(map, name, stream) ==
    [n \in DOMAIN map \cup {name} |-> IF n = name THEN stream ELSE map[n]]

(* Erase that erases nothing *)
EraseNothing(map, name) == map

(* std::map::erase(name) *)
Erase(map, name) == [n \in DOMAIN map \ {name} |-> map[n]]

-----------------------------------------------------------------------------
(* Bounds of the model and the inputs the calls are given *)

(* the masks Stream::setLevels is given: those of UnitTest.cpp and all *)
Masks == {BitOr(BitOr(DBG, INFO), ERR), BitOr(BitOr(WARNING, CRITICAL), ERR),
          ALL_LEVELS}

(* how many events the ArchiveStream holds at most, and how many writes    *)
(* log.txt: a call that would go beyond is not made                        *)
MaxEvents == 2
MaxWrites == 2

(* the value of disk where the contents of log.txt are not followed *)
Unobserved == "unobserved"

(* the threads of the calling program, where it has more than one, and    *)
(* what a thread is at while it is in no function of Log: pc is the        *)
(* statement it is to execute next, inst its local variable inst, i the    *)
(* position of its loop in the map, in the stream whose handle it executes *)
Threads == {"A", "B"}
Idle ==
    [pc |-> "idle", f |-> "-", name |-> "-", stream |-> "-", level |-> 0,
     inst |-> 0, i |-> 0, in |-> "-"]

(* msg, source and code of the log calls *)
LogArgs == {<<info_msg, UnitTest, C0002>>}

(* the readings of std::chrono::system_clock::now() *)
Clock == {Y2K}

-----------------------------------------------------------------------------
(* Log *)

(* the streams Log::getInstance registers in a new instance *)
DefaultStreams ==
    Assign(Assign(<<>>, "defaultTextFile", DefaultFile), "defaultConsole", DefaultConsole)

(* InstanceStreams as if Log::getInstance registered its two streams at    *)
(* every call                                                              *)
InstanceStreamsReseeds ==
    Assign(Assign(streams, "defaultTextFile", DefaultFile), "defaultConsole", DefaultConsole)

(* Log::streams as Log::getInstance hands it out *)
InstanceStreams == IF instance THEN streams ELSE DefaultStreams

(* Stream::levels once Log::getInstance has run: a new instance constructs *)
(* its two streams                                                         *)
InstanceLevels ==
    IF instance THEN levels
    ELSE [d \in AllStreams |-> IF d \in DefaultObjects THEN StreamCtor ELSE levels[d]]

(* The record of a call: the function and its arguments. For addStream,   *)
(* old is the stream the name stood for until the call (nullptr if none).  *)
NoName == "-"
NoStream == "-"
NoCall ==
    [f |-> "init", name |-> NoName, stream |-> NoStream, old |-> NoStream,
     level |-> 0, mask |-> 0, show |-> FALSE, event |-> DefaultEvent]

(* what a call that dispatches nothing leaves of the last dispatch *)
NoDispatch ==
    /\ handled' = <<>>
    /\ raised' = FALSE
    /\ rendered' = Empty
    /\ file' = <<>>
    /\ cout' = <<>>
    /\ is_open' = FALSE
    /\ UNCHANGED <<e, events, disk, logs, current, threads>>

(* Log::addStream *)
addStream(name, stream) ==
    /\ stream \in userStreams
    /\ instance' = TRUE
    /\ streams' = Assign(InstanceStreams, name, stream)
    /\ levels' = InstanceLevels
    /\ op' = [NoCall EXCEPT !.f = "addStream", !.name = name, !.stream = stream,
                             !.old = Lookup(InstanceStreams, name)]
    /\ ret' = void
    /\ NoDispatch
    /\ UNCHANGED <<debugBuild, userStreams, fileOpens, showDebug>>

(* getStream that looks the name up with operator[], which makes an entry *)
getStreamInserts(name) ==
    /\ instance' = TRUE
    /\ streams' = IF name \in DOMAIN InstanceStreams THEN InstanceStreams
                  ELSE Assign(InstanceStreams, name, nullptr)
    /\ levels' = InstanceLevels
    /\ op' = [NoCall EXCEPT !.f = "getStream", !.name = name]
    /\ ret' = Lookup(InstanceStreams, name)
    /\ NoDispatch
    /\ UNCHANGED <<debugBuild, userStreams, fileOpens, showDebug>>

(* Log::getStream *)
getStream(name) ==
    /\ instance' = TRUE
    /\ streams' = InstanceStreams
    /\ levels' = InstanceLevels
    /\ op' = [NoCall EXCEPT !.f = "getStream", !.name = name]
    /\ ret' = Lookup(InstanceStreams, name)
    /\ NoDispatch
    /\ UNCHANGED <<debugBuild, userStreams, fileOpens, showDebug>>

(* Log::removeStream *)
removeStream(name) ==
    LET result == Lookup(InstanceStreams, name) IN
    /\ instance' = TRUE
    /\ streams' = IF result # nullptr THEN Erase(InstanceStreams, name)
                  ELSE InstanceStreams
    /\ levels' = InstanceLevels
    /\ op' = [NoCall EXCEPT !.f = "removeStream", !.name = name]
    /\ ret' = result
    /\ NoDispatch
    /\ UNCHANGED <<debugBuild, userStreams, fileOpens, showDebug>>

(* forceDebug that asks for the instance first, as the other functions do *)
forceDebugCreates(show) ==
    /\ showDebug' = show
    /\ instance' = TRUE
    /\ streams' = InstanceStreams
    /\ levels' = InstanceLevels
    /\ op' = [NoCall EXCEPT !.f = "forceDebug", !.show = show]
    /\ ret' = void
    /\ NoDispatch
    /\ UNCHANGED <<debugBuild, userStreams, fileOpens>>

(* Log::forceDebug *)
forceDebug(show) ==
    /\ showDebug' = show
    /\ op' = [NoCall EXCEPT !.f = "forceDebug", !.show = show]
    /\ ret' = void
    /\ NoDispatch
    /\ UNCHANGED <<debugBuild, userStreams, fileOpens, instance, streams, levels>>

(* setLevels that adds the levels to those the stream listens for *)
setLevelsAdds(stream, mask) ==
    /\ stream \in userStreams
    /\ levels' = [levels EXCEPT ![stream] = BitOr(levels[stream], mask)]
    /\ op' = [NoCall EXCEPT !.f = "setLevels", !.stream = stream, !.mask = mask]
    /\ ret' = void
    /\ NoDispatch
    /\ UNCHANGED <<debugBuild, userStreams, fileOpens, instance, streams, showDebug>>

(* Stream::setLevels, on a stream the caller has constructed *)
setLevels(stream, mask) ==
    /\ stream \in userStreams
    /\ levels' = [levels EXCEPT ![stream] = mask]
    /\ op' = [NoCall EXCEPT !.f = "setLevels", !.stream = stream, !.mask = mask]
    /\ ret' = void
    /\ NoDispatch
    /\ UNCHANGED <<debugBuild, userStreams, fileOpens, instance, streams, showDebug>>

(* Dispatch that runs handle where Log::log runs call: no mask is asked *)
RECURSIVE DispatchUnfiltered(_, _, _, _)
DispatchUnfiltered(i, map, lv, level) ==
    IF i > Len(NameOrder) THEN <<>>
    ELSE LET n == NameOrder[i] IN
         IF n \notin DOMAIN map THEN DispatchUnfiltered(i + 1, map, lv, level)
         ELSE IF map[n] \in ThrowingStreams THEN <<map[n]>>
         ELSE <<map[n]>> \o DispatchUnfiltered(i + 1, map, lv, level)

(* Stream::call for every entry of the map from the i-th name on, in the   *)
(* order of the map: the streams whose handle runs. The loop of Log::log   *)
(* has no try block, so a handle that throws ends it.                      *)
RECURSIVE Dispatch(_, _, _, _)
Dispatch(i, map, lv, level) ==
    IF i > Len(NameOrder) THEN <<>>
    ELSE LET n == NameOrder[i] IN
         IF n \notin DOMAIN map \/ ~Accepts(lv[map[n]], level)
         THEN Dispatch(i + 1, map, lv, level)
         ELSE IF map[n] \in ThrowingStreams THEN <<map[n]>>
         ELSE <<map[n]>> \o Dispatch(i + 1, map, lv, level)

(* one copy of text for every stream of kind among those handled *)
Writes(h, kind, text) ==
    LET sel == SelectSeq(h, LAMBDA d : d \in kind) IN [i \in 1..Len(sel) |-> text]

InSeq(x, h) == \E i \in 1..Len(h) : h[i] = x

(* std::vector::push_back of evs at the wrong end *)
push_front(vec, evs) == evs \o vec

(* std::vector::push_back of every event of evs, in their order *)
push_back(vec, evs) == vec \o evs

(* std::fstream f{file, f.app | f.out}: whether f is open *)
fstream(opens) == opens

(* std::fstream::close: whether f is open after it *)
close(f) == FALSE

(* write to a file opened without f.app: what the file held is lost *)
writeTruncates(old, texts) == IF old = Unobserved THEN old ELSE <<>> \o texts

(* std::fstream::write of every text of texts to a file opened with        *)
(* f.app | f.out and that holds old                                        *)
write(old, texts) == IF old = Unobserved THEN old ELSE old \o texts

(* What the handle calls of one event leave behind, h being the streams    *)
(* whose handle ran: TestStream::handle keeps the event, ConsoleStream::   *)
(* handle writes its text to std::cout, TextFileStream::handle appends it  *)
(* to the file if the fstream is open, ArchiveStream::handle appends the   *)
(* event to its vector. A throwing handle leaves nothing.                  *)
Handle(h, ev, opens) ==
    /\ \A a \in ArchiveStreams : Len(events[a]) + Len(Writes(h, {a}, ev)) <= MaxEvents
    /\ (disk # Unobserved /\ opens)
          => Len(disk) + Len(Writes(h, TextFileStreams, ev)) <= MaxWrites
    /\ events' = [a \in ArchiveStreams |-> push_back(events[a], Writes(h, {a}, ev))]
    /\ disk' = IF fstream(opens)
               THEN write(disk, Writes(h, TextFileStreams, toString(ev)))
               ELSE disk
    /\ is_open' = ((\E d \in TextFileStreams : InSeq(d, h)) /\ close(fstream(opens)))
    /\ UNCHANGED <<logs, current, threads>>
    /\ handled' = h
    /\ raised' = (h # <<>> /\ h[Len(h)] \in ThrowingStreams)
    /\ e' = [t \in DOMAIN e |-> IF InSeq(t, h) THEN ev ELSE e[t]]
    /\ cout' = Writes(h, ConsoleStreams, toString(ev))
    /\ file' = IF fstream(opens) THEN Writes(h, TextFileStreams, toString(ev)) ELSE <<>>

(* Stream::call, called on a stream the caller has constructed *)
call(stream, ev) ==
    /\ stream \in userStreams
    /\ op' = [NoCall EXCEPT !.f = "call", !.stream = stream, !.level = ev.level,
                             !.event = ev]
    /\ ret' = void
    /\ rendered' = Empty
    /\ IF Accepts(levels[stream], ev.level)
       THEN Handle(<<stream>>, ev, TRUE)
       ELSE Handle(<<>>, ev, TRUE)
    /\ UNCHANGED <<debugBuild, userStreams, fileOpens, instance, streams, showDebug,
                   levels>>

(* DebugVisible as if SHOW_DEBUG were defined in every build *)
DebugVisibleAlways == TRUE

(* DebugVisible without the #ifdef SHOW_DEBUG *)
DebugVisibleFlagOnly == showDebug

(* DebugVisible without the showDebug that Log::forceDebug sets *)
DebugVisibleBuildOnly == debugBuild

(* debugVisible of Log::log: showDebug, or true where SHOW_DEBUG is defined *)
DebugVisible == showDebug \/ debugBuild

(* Log::log that keeps the event for later and runs no handle *)
logDefers(level, msg, source, code, now, opens) ==
    LET ev == Event(level, msg, source, code, now) IN
    /\ opens \in fileOpens
    /\ op' = [NoCall EXCEPT !.f = "log", !.level = level, !.event = ev]
    /\ ret' = void
    /\ rendered' = Empty
    /\ IF level # DBG \/ DebugVisible
       THEN /\ instance' = TRUE
            /\ streams' = InstanceStreams
            /\ levels' = InstanceLevels
            /\ Handle(<<>>, ev, opens)
       ELSE /\ Handle(<<>>, ev, opens)
            /\ UNCHANGED <<instance, streams, levels>>
    /\ UNCHANGED <<debugBuild, userStreams, fileOpens, showDebug>>

(* Log::log. now is the reading of the clock the Event is constructed      *)
(* with, opens whether TextFileStream::handle finds its fstream open.      *)
log(level, msg, source, code, now, opens) ==
    LET ev == Event(level, msg, source, code, now) IN
    /\ opens \in fileOpens
    /\ op' = [NoCall EXCEPT !.f = "log", !.level = level, !.event = ev]
    /\ ret' = void
    /\ rendered' = Empty
    /\ IF level # DBG \/ DebugVisible
       THEN /\ instance' = TRUE
            /\ streams' = InstanceStreams
            /\ levels' = InstanceLevels
            /\ Handle(Dispatch(1, InstanceStreams, InstanceLevels, level), ev, opens)
       ELSE /\ Handle(<<>>, ev, opens)
            /\ UNCHANGED <<instance, streams, levels>>
    /\ UNCHANGED <<debugBuild, userStreams, fileOpens, showDebug>>

(* Log::debug, Log::info, Log::warning, Log::error, Log::critical *)
debug(msg, source, code, now, opens) == log(DBG, msg, source, code, now, opens)
info(msg, source, code, now, opens) == log(INFO, msg, source, code, now, opens)
warning(msg, source, code, now, opens) == log(WARNING, msg, source, code, now, opens)
error(msg, source, code, now, opens) == log(ERR, msg, source, code, now, opens)
critical(msg, source, code, now, opens) == log(CRITICAL, msg, source, code, now, opens)

(* ArchiveStream::getEvents *)
getEvents(a) ==
    /\ a \in ArchiveStreams \cap userStreams
    /\ op' = [NoCall EXCEPT !.f = "getEvents", !.stream = a]
    /\ ret' = events[a]
    /\ NoDispatch
    /\ UNCHANGED <<debugBuild, userStreams, fileOpens, instance, streams, showDebug,
                   levels>>

(* TestStream::getEventString *)
getEventString(t) ==
    /\ t \in TestStreams \cap userStreams
    /\ rendered' = toString(e[t])
    /\ op' = [NoCall EXCEPT !.f = "getEventString", !.stream = t]
    /\ ret' = void
    /\ handled' = <<>>
    /\ raised' = FALSE
    /\ file' = <<>>
    /\ cout' = <<>>
    /\ is_open' = FALSE
    /\ UNCHANGED <<debugBuild, userStreams, fileOpens, instance, streams, showDebug,
                   levels, e, events, disk, logs, current, threads>>

-----------------------------------------------------------------------------
(* The program: no instance yet, the caller's streams constructed. *)

InitWith(builds, us, opens) ==
    /\ debugBuild \in builds
    /\ userStreams = us
    /\ fileOpens = opens
    /\ instance = FALSE
    /\ streams = <<>>
    /\ showDebug = FALSE
    /\ levels = [d \in AllStreams |-> IF d \in us THEN StreamCtor ELSE 0]
    /\ e = [t \in TestStreams |-> DefaultEvent]
    /\ op = NoCall
    /\ ret = void
    /\ handled = <<>>
    /\ raised = FALSE
    /\ rendered = Empty
    /\ file = <<>>
    /\ cout = <<>>
    /\ events = [a \in ArchiveStreams |-> <<>>]
    /\ disk = Unobserved
    /\ is_open = FALSE
    /\ logs = <<>>
    /\ current = 0
    /\ threads = [t \in Threads |-> Idle]

(* a release build, the caller with a TestStream and a ConsoleStream *)
Init == InitWith({FALSE}, {"t1", "c2"}, {TRUE})

Next ==
    \/ \E n \in Names, d \in AllStreams : addStream(n, d)
    \/ \E n \in Names : getStream(n)
    \/ \E n \in Names : removeStream(n)
    \/ \E b \in BOOLEAN : forceDebug(b)
    \/ \E d \in AllStreams, m \in Masks : setLevels(d, m)
    \/ \E l \in LEVELS, a \in LogArgs, now \in Clock, o \in BOOLEAN :
          log(l, a[1], a[2], a[3], now, o)
    \/ \E a \in LogArgs, now \in Clock, o \in BOOLEAN :
          \/ debug(a[1], a[2], a[3], now, o)
          \/ info(a[1], a[2], a[3], now, o)
          \/ warning(a[1], a[2], a[3], now, o)
          \/ error(a[1], a[2], a[3], now, o)
          \/ critical(a[1], a[2], a[3], now, o)
    \/ \E t \in TestStreams : getEventString(t)

Spec == Init /\ [][Next]_vars

(* Both builds, the caller with a TestStream. *)
InitBuilds == InitWith(BOOLEAN, {"t1"}, {TRUE})
SpecBuilds == InitBuilds /\ [][Next]_vars

(* A release build, the caller with a TestStream and a stream whose handle *)
(* throws.                                                                 *)
InitThrow == InitWith({FALSE}, {"t1", "bad"}, {TRUE})
SpecThrow == InitThrow /\ [][Next]_vars

(* A release build, the caller with an ArchiveStream that it registers,    *)
(* masks and reads between the log calls.                                  *)
InitArchive == InitWith({FALSE}, {"a1"}, {TRUE})

NextArchive ==
    \/ \E n \in Names, d \in AllStreams : addStream(n, d)
    \/ \E n \in Names : removeStream(n)
    \/ \E d \in AllStreams, m \in Masks : setLevels(d, m)
    \/ \E l \in LEVELS, a \in LogArgs, now \in Clock, o \in BOOLEAN :
          log(l, a[1], a[2], a[3], now, o)
    \/ \E a \in ArchiveStreams : getEvents(a)

SpecArchive == InitArchive /\ [][NextArchive]_vars

(* A release build, the contents of log.txt followed from an empty file,   *)
(* the file sometimes failing to open; the caller has a ConsoleStream.     *)
InitFile ==
    /\ debugBuild = FALSE
    /\ userStreams = {"c2"}
    /\ fileOpens = BOOLEAN
    /\ instance = FALSE
    /\ streams = <<>>
    /\ showDebug = FALSE
    /\ levels = [d \in AllStreams |-> IF d = "c2" THEN StreamCtor ELSE 0]
    /\ e = [t \in TestStreams |-> DefaultEvent]
    /\ op = NoCall
    /\ ret = void
    /\ handled = <<>>
    /\ raised = FALSE
    /\ rendered = Empty
    /\ file = <<>>
    /\ cout = <<>>
    /\ events = [a \in ArchiveStreams |-> <<>>]
    /\ disk = <<>>
    /\ is_open = FALSE
    /\ logs = <<>>
    /\ current = 0
    /\ threads = [t \in Threads |-> Idle]

NextFile ==
    \/ \E n \in Names, d \in AllStreams : addStream(n, d)
    \/ \E n \in Names : removeStream(n)
    \/ \E l \in LEVELS, a \in LogArgs, now \in Clock, o \in BOOLEAN :
          log(l, a[1], a[2], a[3], now, o)

SpecFile == InitFile /\ [][NextFile]_vars

(* Stream::call by itself: a stream of the caller with any mask, called    *)
(* with an event of any level.                                             *)
InitCall ==
    /\ debugBuild = FALSE
    /\ userStreams = {"t1", "c2"}
    /\ fileOpens = {TRUE}
    /\ instance = FALSE
    /\ streams = <<>>
    /\ showDebug = FALSE
    /\ \E m \in 0..ALL_LEVELS :
          levels = [d \in AllStreams |->
                      IF d = "t1" THEN m ELSE IF d = "c2" THEN StreamCtor ELSE 0]
    /\ e = [t \in TestStreams |-> DefaultEvent]
    /\ op = NoCall
    /\ ret = void
    /\ handled = <<>>
    /\ raised = FALSE
    /\ rendered = Empty
    /\ file = <<>>
    /\ cout = <<>>
    /\ events = [a \in ArchiveStreams |-> <<>>]
    /\ disk = Unobserved
    /\ is_open = FALSE
    /\ logs = <<>>
    /\ current = 0
    /\ threads = [t \in Threads |-> Idle]

NextCall ==
    \E d \in AllStreams, l \in LEVELS, a \in LogArgs, now \in Clock :
        call(d, Event(l, a[1], a[2], a[3], now))

SpecCall == InitCall /\ [][NextCall]_vars

(* Event::toString by itself: a TestStream that holds any event of         *)
(* RenderEvents, rendered by TestStream::getEventString.                   *)
RenderTimes == {Y2K, Tm(2023, 5, 31, 9, 5, 7), Tm(1999, 12, 31, 23, 59, 59)}
RenderEvents ==
    {Event(l, m, s, c, t) : l \in LEVELS, m \in {TestMessage, info_msg},
                            s \in {Empty, UnitTest}, c \in {Empty, C0001},
                            t \in RenderTimes}

InitRender ==
    /\ debugBuild = FALSE
    /\ userStreams = {"t1"}
    /\ fileOpens = {TRUE}
    /\ instance = FALSE
    /\ streams = <<>>
    /\ showDebug = FALSE
    /\ levels = [d \in AllStreams |-> IF d = "t1" THEN StreamCtor ELSE 0]
    /\ e \in [TestStreams -> RenderEvents]
    /\ op = NoCall
    /\ ret = void
    /\ handled = <<>>
    /\ raised = FALSE
    /\ rendered = Empty
    /\ file = <<>>
    /\ cout = <<>>
    /\ events = [a \in ArchiveStreams |-> <<>>]
    /\ disk = Unobserved
    /\ is_open = FALSE
    /\ logs = <<>>
    /\ current = 0
    /\ threads = [t \in Threads |-> Idle]

NextRender == \E t \in TestStreams : getEventString(t)

SpecRender == InitRender /\ [][NextRender]_vars

-----------------------------------------------------------------------------
(* Log called from the threads of Threads. No function of Log takes a lock *)
(* and Log::instance is a plain pointer, so the statements of the threads  *)
(* interleave. A thread is in the map of a Log object from the statement   *)
(* that begins to change or to walk it to the statement that ends it.      *)

(* Log::instance and its streams, as the other specifications have them *)
Static ==
    /\ instance' = (current' # 0)
    /\ streams' = IF current' = 0 THEN <<>> ELSE logs'[current']

(* what the statements of a thread leave alone *)
Rest ==
    UNCHANGED <<debugBuild, userStreams, fileOpens, showDebug, levels, op, ret,
                handled, raised, rendered, file, cout, events, disk, is_open>>

(* the thread t goes on with local state rec *)
Goto(t, rec) == threads' = [threads EXCEPT ![t] = rec]

(* t changes the map of the Log object inst points to *)
Mutating(t) == threads[t].pc = "mutate"

(* t walks the map of the Log object inst points to *)
Iterating(t) == threads[t].pc \in {"loop", "handle"}

(* a thread calls Log::addStream, Log::removeStream or Log::log, whose     *)
(* first statement is the call of getInstance                              *)
Enter(t, f, name, stream, level) ==
    /\ threads[t].pc = "idle"
    /\ f = "addStream" => stream \in userStreams
    /\ Goto(t, [Idle EXCEPT !.pc = "check", !.f = f, !.name = name,
                            !.stream = stream, !.level = level])
    /\ UNCHANGED <<logs, current, e>>
    /\ Static
    /\ Rest

(* Log::getInstance: if (instance == nullptr) *)
Check(t) ==
    /\ threads[t].pc = "check"
    /\ Goto(t, [threads[t] EXCEPT !.pc = IF current = 0 THEN "new" ELSE "return"])
    /\ UNCHANGED <<logs, current, e>>
    /\ Static
    /\ Rest

(* Log::getInstance: instance = new Log() *)
New(t) ==
    /\ threads[t].pc = "new"
    /\ logs' = Append(logs, <<>>)
    /\ current' = Len(logs) + 1
    /\ Goto(t, [threads[t] EXCEPT !.pc = "seedFile"])
    /\ UNCHANGED e
    /\ Static
    /\ Rest

(* Log::getInstance: instance->addStream(...), a call of the static        *)
(* Log::addStream, which asks getInstance for the Log object               *)
Seed(t) ==
    /\ threads[t].pc \in {"seedFile", "seedConsole"}
    /\ logs' = [logs EXCEPT ![current] =
                  IF threads[t].pc = "seedFile"
                  THEN Assign(@, "defaultTextFile", DefaultFile)
                  ELSE Assign(@, "defaultConsole", DefaultConsole)]
    /\ Goto(t, [threads[t] EXCEPT
                  !.pc = IF threads[t].pc = "seedFile" THEN "seedConsole" ELSE "return"])
    /\ UNCHANGED <<current, e>>
    /\ Static
    /\ Rest

(* Log::getInstance: return instance, and auto inst = getInstance() of the *)
(* caller, which then begins inst->streams[name] = stream, the erase, or   *)
(* the loop                                                                *)
Return(t) ==
    /\ threads[t].pc = "return"
    /\ Goto(t, [threads[t] EXCEPT !.inst = current,
                                  !.pc = IF threads[t].f = "log" THEN "loop" ELSE "mutate",
                                  !.i = IF threads[t].f = "log" THEN 1 ELSE 0])
    /\ UNCHANGED <<logs, current, e>>
    /\ Static
    /\ Rest

(* the end of inst->streams[name] = stream of Log::addStream, or of the    *)
(* getStream and erase of Log::removeStream. With another thread in the    *)
(* same map the access is a data race: the map may also stay as it was.    *)
Mutate(t) ==
    LET me == threads[t]
        map == logs[me.inst]
        new == IF me.f = "addStream" THEN Assign(map, me.name, me.stream)
               ELSE IF Lookup(logs[current], me.name) # nullptr
                    THEN Erase(map, me.name) ELSE map
        raced == \E u \in Threads \ {t} :
                    (Mutating(u) \/ Iterating(u)) /\ threads[u].inst = me.inst
    IN /\ Mutating(t)
       /\ \E result \in IF raced THEN {new, map} ELSE {new} :
             logs' = [logs EXCEPT ![me.inst] = result]
       /\ Goto(t, Idle)
       /\ UNCHANGED <<current, e>>
       /\ Static
       /\ Rest

(* for (auto s : inst->streams) of Log::log: the next entry of the map, *)
(* and Stream::call up to the call of handle                               *)
Loop(t) ==
    LET me == threads[t]
        map == logs[me.inst]
    IN /\ me.pc = "loop"
       /\ IF me.i > Len(NameOrder) THEN Goto(t, Idle)
          ELSE IF /\ NameOrder[me.i] \in DOMAIN map
                  /\ Accepts(levels[map[NameOrder[me.i]]], me.level)
               THEN Goto(t, [me EXCEPT !.pc = "handle", !.in = map[NameOrder[me.i]]])
               ELSE Goto(t, [me EXCEPT !.i = me.i + 1])
       /\ UNCHANGED <<logs, current, e>>
       /\ Static
       /\ Rest

(* the end of handle of the stream the loop is at *)
HandleReturns(t) ==
    LET me == threads[t] IN
    /\ me.pc = "handle"
    /\ e' = [s \in DOMAIN e |->
               IF s = me.in
               THEN Event(me.level, info_msg, UnitTest, C0002, Y2K) ELSE e[s]]
    /\ Goto(t, [me EXCEPT !.pc = "loop", !.in = "-", !.i = me.i + 1])
    /\ UNCHANGED <<logs, current>>
    /\ Static
    /\ Rest

(* A release build, two threads, the caller with a TestStream *)
InitThreads == InitWith({FALSE}, {"t1"}, {TRUE})

NextThreads ==
    \E t \in Threads :
        \/ \E n \in {"Test", "defaultConsole"}, d \in AllStreams :
              Enter(t, "addStream", n, d, 0)
        \/ \E n \in {"Test", "defaultConsole"} : Enter(t, "removeStream", n, "-", 0)
        \/ Enter(t, "log", "-", "-", INFO)
        \/ Check(t)
        \/ New(t)
        \/ Seed(t)
        \/ Return(t)
        \/ Mutate(t)
        \/ Loop(t)
        \/ HandleReturns(t)

SpecThreads == InitThreads /\ [][NextThreads]_vars

-----------------------------------------------------------------------------
(* What the properties below are stated with *)

(* bit level of mask is set; level is one of LEVELS, a power of two *)
HasBit(mask, level) == (mask \div level) % 2 = 1

(* how often d occurs in h *)
Count(h, d) == Cardinality({i \in 1..Len(h) : h[i] = d})

(* the names under which d is registered and that take an event of level *)
Takers(d, level) ==
    {n \in DOMAIN streams : streams[n] = d /\ HasBit(levels[d], level)}

(* the last call was a log call that the debug switch did not suppress *)
Dispatched == op.f = "log" /\ ~(op.level = DBG /\ ~showDebug /\ ~debugBuild)

(* the last call was a log call that the debug switch suppressed *)
Suppressed == op.f = "log" /\ op.level = DBG /\ ~showDebug /\ ~debugBuild

-----------------------------------------------------------------------------
(* C1: Stream::call on a stream with mask M, given an event of level L,    *)
(* runs the stream's handle with that event if and only if bit L is set in *)
(* M; when it is not set, the stream is left as it was and nothing is      *)
(* written.                                                                *)
C1_CallFiltersByMask ==
    [][op'.f = "call" =>
         LET d == op'.stream
             ev == op'.event
         IN IF HasBit(levels[d], ev.level)
            THEN /\ handled' = <<d>>
                 /\ d \in TestStreams => e'[d] = ev
                 /\ d \in ConsoleStreams => cout' = <<toString(ev)>>
            ELSE /\ handled' = <<>>
                 /\ e' = e
                 /\ cout' = <<>>
                 /\ file' = <<>>]_vars

(* a call refused by a mask that has other bits set, after a call that was *)
(* taken: the TestStream still holds the earlier event                     *)
C1_Witness ==
    /\ op.f = "call"
    /\ op.stream = "t1"
    /\ op.level = WARNING
    /\ levels["t1"] = 27
    /\ handled = <<>>
    /\ e["t1"].level = ERR

(* C2: a log call that is not debug-suppressed runs handle exactly once    *)
(* for every registered name whose stream has the bit of the event's level *)
(* set in its mask, and on no other stream: not on streams that are not    *)
(* registered, not on streams whose mask lacks the level.                  *)
C2_RoutesToRegisteredTakers ==
    Dispatched =>
        /\ \A d \in AllStreams : Count(handled, d) = Cardinality(Takers(d, op.level))
        /\ ~raised
        /\ (/\ levels["t1"] = BitOr(BitOr(DBG, INFO), ERR)
            /\ levels["c2"] = BitOr(BitOr(WARNING, CRITICAL), ERR)
            /\ \E n \in DOMAIN streams : streams[n] = "t1"
            /\ \E n \in DOMAIN streams : streams[n] = "c2")
           => IF op.level = ERR
              THEN Count(handled, "t1") > 0 /\ Count(handled, "c2") > 0
              ELSE (Count(handled, "t1") > 0) # (Count(handled, "c2") > 0)

(* the masks of UnitTest.cpp: an ERR event reaches both streams *)
C2_Witness ==
    /\ Dispatched
    /\ op.level = ERR
    /\ levels["t1"] = 11 /\ levels["c2"] = 28
    /\ "Test" \in DOMAIN streams /\ streams["Test"] = "t1"
    /\ "defaultConsole" \in DOMAIN streams /\ streams["defaultConsole"] = "c2"
    /\ "defaultTextFile" \notin DOMAIN streams
    /\ handled = <<"t1", "c2">>

(* C3: getStream(n) returns nullptr while n is not registered; right after *)
(* addStream(n, d), getStream(n) returns d and removeStream(n) returns d;  *)
(* removeStream(n) returns what getStream(n) returned just before; right   *)
(* after removeStream(n), getStream(n) returns nullptr.                    *)
C3_RegistryRoundTrip ==
    [][/\ (op'.f = "getStream" /\ op'.name \notin DOMAIN InstanceStreams)
            => ret' = nullptr
       /\ (op.f = "addStream" /\ op'.f = "getStream" /\ op'.name = op.name)
            => ret' = op.stream
       /\ (op.f = "addStream" /\ op'.f = "removeStream" /\ op'.name = op.name)
            => ret' = op.stream
       /\ (op.f = "getStream" /\ op'.f = "removeStream" /\ op'.name = op.name)
            => ret' = ret
       /\ (op.f = "removeStream" /\ op'.f = "getStream" /\ op'.name = op.name)
            => ret' = nullptr]_vars

(* removeStream has returned the TestStream and the name is free again *)
C3_Witness ==
    /\ op.f = "removeStream"
    /\ op.name = "Test"
    /\ ret = "t1"
    /\ "Test" \notin DOMAIN streams

(* C4: in a build without SHOW_DEBUG, a DBG log call runs no handle and    *)
(* writes nothing while showDebug is false, and is dispatched like any     *)
(* other level while it is true; for the other four levels the streams     *)
(* whose handle runs are decided by the registry and the masks alone.      *)
C4_DebugGate ==
    (~debugBuild /\ op.f = "log") =>
        IF op.level = DBG /\ ~showDebug
        THEN handled = <<>> /\ cout = <<>> /\ file = <<>>
        ELSE {handled[i] : i \in 1..Len(handled)}
               = {d \in AllStreams : Takers(d, op.level) # {}}

(* a suppressed DBG call with a registered stream that takes DBG, after a  *)
(* DBG event had been delivered: forceDebug(true), then forceDebug(false)  *)
C4_Witness ==
    /\ Suppressed
    /\ handled = <<>>
    /\ "Test" \in DOMAIN streams /\ streams["Test"] = "t1"
    /\ HasBit(levels["t1"], DBG)
    /\ e["t1"].level = DBG

DefaultOf(name) == IF name = "defaultTextFile" THEN DefaultFile ELSE DefaultConsole
ReservedNames == {"defaultTextFile", "defaultConsole"}

(* C6, as claimed: after the first call of a registry or logging function  *)
(* the registry, as the next call finds it, holds the default              *)
(* TextFileStream and the default ConsoleStream under their reserved       *)
(* names, both with mask 31.                                               *)
C6_DefaultsAfterFirstCall ==
    [][(~instance /\ op'.f \in {"addStream", "getStream", "removeStream",
                                "forceDebug", "log"}) =>
         \A r \in ReservedNames :
             /\ Lookup(InstanceStreams', r) = DefaultOf(r)
             /\ InstanceLevels'[DefaultOf(r)] = ALL_LEVELS]_vars

(* C6, amended: the call that creates the instance finds the two defaults  *)
(* registered, both with mask 31, and acts on that registry: after it a    *)
(* reserved name stands for its default unless the call was an addStream   *)
(* or removeStream of that very name, and a log call runs the handle of    *)
(* both defaults.                                                          *)
C6_SeededAtCreation ==
    [][(~instance /\ instance') =>
         /\ \A r \in ReservedNames :
                \/ op'.f \in {"addStream", "removeStream"} /\ op'.name = r
                \/ /\ r \in DOMAIN streams'
                   /\ streams'[r] = DefaultOf(r)
                   /\ DefaultOf(r) \in (IF r = "defaultTextFile" THEN TextFileStreams
                                        ELSE ConsoleStreams)
         /\ \A r \in ReservedNames : levels'[DefaultOf(r)] = ALL_LEVELS
         /\ op'.f = "removeStream" /\ op'.name \in ReservedNames
                => ret' = DefaultOf(op'.name)
         /\ op'.f = "log" => handled' = <<DefaultConsole, DefaultFile>>]_vars

(* a log call with nothing set up: both defaults have written the event *)
C6_Witness ==
    /\ op.f = "log"
    /\ streams = DefaultStreams
    /\ handled = <<DefaultConsole, DefaultFile>>
    /\ cout = <<toString(op.event)>>
    /\ file = <<toString(op.event)>>
    /\ e["t1"] = DefaultEvent

(* C7: addStream under a registered name is not refused and overwrites:    *)
(* the names of the registry stay the same and the name stands for the new *)
(* stream, which getStream and removeStream return right after; a log call *)
(* runs handle only on streams that are registered at that moment, so not  *)
(* on an overwritten one that has no other name, and on every registered   *)
(* stream that takes the level, the new one among them. A name stands for  *)
(* one stream.                                                             *)
C7_AddOverwrites ==
    [][/\ (op'.f = "addStream" /\ op'.name \in DOMAIN InstanceStreams) =>
            /\ DOMAIN streams' = DOMAIN InstanceStreams
            /\ streams'[op'.name] = op'.stream
            /\ \A n \in DOMAIN streams' \ {op'.name} : streams'[n] = InstanceStreams[n]
            /\ ~raised'
       /\ (op.f = "addStream" /\ op.old # nullptr /\ op.old # op.stream
             /\ op'.f \in {"getStream", "removeStream"} /\ op'.name = op.name)
            => ret' = op.stream
       /\ op'.f = "log" =>
            \A d \in AllStreams :
                Count(handled', d) > 0 => \E n \in DOMAIN streams' : streams'[n] = d
       /\ (op'.f = "log" /\ ~(op'.level = DBG /\ ~showDebug /\ ~debugBuild)) =>
            \A n \in DOMAIN streams' :
                HasBit(levels'[streams'[n]], op'.level)
                    => Count(handled', streams'[n]) > 0
       /\ DOMAIN streams' \subseteq Names
       /\ \A n \in DOMAIN streams' : streams'[n] \in AllStreams]_vars

(* addStream has put the ConsoleStream where the TestStream was *)
C7_Witness ==
    /\ op.f = "addStream"
    /\ op.name = "Test"
    /\ op.old = "t1"
    /\ op.stream = "c2"
    /\ streams["Test"] = "c2"
    /\ \A n \in DOMAIN streams : streams[n] # "t1"

(* C8: with the instance made, getStream(n) and removeStream(n) for a name *)
(* that is not registered return nullptr, raise nothing and leave the      *)
(* registry as it was; getStream leaves the registry as it was in any case.*)
C8_LookupMiss ==
    [][instance =>
         /\ (op'.f \in {"getStream", "removeStream"} /\ op'.name \notin DOMAIN streams)
              => (ret' = nullptr /\ ~raised' /\ streams' = streams)
         /\ op'.f = "getStream" => streams' = streams]_vars

(* a miss on a registry in use: the TestStream has received an event, so   *)
(* it was registered, and the name is free now                             *)
C8_Witness ==
    /\ instance
    /\ op.f = "removeStream"
    /\ op.name = "Test"
    /\ ret = nullptr
    /\ e["t1"] # DefaultEvent
    /\ DOMAIN streams = ReservedNames

(* C9: when the handle of a registered stream throws during a log call,    *)
(* every other registered stream that takes the event's level still has    *)
(* its handle run in that call, and the call returns without an exception. *)
C9_FailureIsolated ==
    (op.f = "log" /\ \E i \in 1..Len(handled) : handled[i] \in ThrowingStreams) =>
        /\ ~raised
        /\ \A n \in DOMAIN streams :
               HasBit(levels[streams[n]], op.level) => Count(handled, streams[n]) > 0

(* the number a text of decimal digits stands for; -1 if it has another    *)
(* character                                                               *)
DigitValue(c) == IF \E i \in 0..9 : DigitChar[i + 1] = c
                 THEN CHOOSE i \in 0..9 : DigitChar[i + 1] = c
                 ELSE -1

RECURSIVE Number(_)
Number(t) ==
    IF t = <<>> THEN 0
    ELSE LET rest == Number(SubSeq(t, 1, Len(t) - 1))
             last == DigitValue(t[Len(t)])
         IN IF rest < 0 \/ last < 0 THEN -1 ELSE 10 * rest + last

(* the text of the example of UnitTest.cpp, SECTION Event *)
ExampleText ==
    <<" ", "!", " ", "2", "0", "0", "0", "/", "0", "1", "/", "0", "1", "/",
      "1", "2", ":", "0", "0", ":", "0", "0", " ", "-", " ",
      "T", "e", "s", "t", " ", "M", "e", "s", "s", "a", "g", "e">>

(* C10: Event::toString returns the three characters of the level, then    *)
(* the timestamp as YYYY/MM/DD/HH:MM:SS followed by " - ", then "[code] "  *)
(* if and only if code is not empty, then the message, then                *)
(* " (from source)" if and only if source is not empty, and nothing after  *)
(* it; the WARNING event "Test Message" of 2000-01-01 12:00:00 without     *)
(* code and source gives ExampleText.                                      *)
C10_RenderedText ==
    op.f = "getEventString" =>
        LET ev == e[op.stream]
            t == ev.timestamp
            r == rendered
            c == IF ev.code = Empty THEN 0 ELSE Len(ev.code) + 3
            m == Len(ev.msg)
            src == IF ev.source = Empty THEN 0 ELSE Len(ev.source) + 8
        IN /\ Len(r) = 25 + c + m + src
           /\ ev.level = DBG => SubSeq(r, 1, 3) = <<" ", "#", " ">>
           /\ ev.level = INFO => SubSeq(r, 1, 3) = <<" ", " ", " ">>
           /\ ev.level = WARNING => SubSeq(r, 1, 3) = <<" ", "!", " ">>
           /\ ev.level = ERR => SubSeq(r, 1, 3) = <<"!", "!", " ">>
           /\ ev.level = CRITICAL => SubSeq(r, 1, 3) = <<"!", "!", "!">>
           /\ Number(SubSeq(r, 4, 7)) = t.tm_year + 1900
           /\ r[8] = "/"
           /\ Number(SubSeq(r, 9, 10)) = t.tm_mon + 1
           /\ r[11] = "/"
           /\ Number(SubSeq(r, 12, 13)) = t.tm_mday
           /\ r[14] = "/"
           /\ Number(SubSeq(r, 15, 16)) = t.tm_hour
           /\ r[17] = ":"
           /\ Number(SubSeq(r, 18, 19)) = t.tm_min
           /\ r[20] = ":"
           /\ Number(SubSeq(r, 21, 22)) = t.tm_sec
           /\ SubSeq(r, 23, 25) = <<" ", "-", " ">>
           /\ ev.code # Empty =>
                 /\ r[26] = "["
                 /\ SubSeq(r, 27, 26 + Len(ev.code)) = ev.code
                 /\ SubSeq(r, 27 + Len(ev.code), 28 + Len(ev.code)) = <<"]", " ">>
           /\ SubSeq(r, 26 + c, 25 + c + m) = ev.msg
           /\ ev.source # Empty =>
                 /\ SubSeq(r, 26 + c + m, 32 + c + m)
                      = <<" ", "(", "f", "r", "o", "m", " ">>
                 /\ SubSeq(r, 33 + c + m, Len(r) - 1) = ev.source
                 /\ r[Len(r)] = ")"
           /\ ev = Event(WARNING, TestMessage, Empty, Empty, Y2K) => r = ExampleText

(* the example has been rendered *)
C10_Witness ==
    /\ op.f = "getEventString"
    /\ e[op.stream] = Event(WARNING, TestMessage, Empty, Empty, Y2K)
    /\ rendered = ExampleText

(* an event with code and source has been rendered *)
C10_WitnessBoth ==
    /\ op.f = "getEventString"
    /\ e[op.stream].code = C0001
    /\ e[op.stream].source = UnitTest
    /\ Len(rendered) = 25 + 8 + Len(e[op.stream].msg) + 16

(* C11: a DBG log call is dispatched exactly when the build has SHOW_DEBUG *)
(* or showDebug is true: it then runs handle once for every registered     *)
(* name whose stream takes DBG, and otherwise runs no handle and writes    *)
(* nothing. In a build with SHOW_DEBUG that is so whatever forceDebug has  *)
(* set, also right after forceDebug(false).                                *)
C11_DebugVisibility ==
    [][(op'.f = "log" /\ op'.level = DBG) =>
         /\ IF debugBuild \/ showDebug
            THEN /\ instance'
                 /\ \A d \in AllStreams :
                       Count(handled', d) = Cardinality(Takers(d, DBG)')
                 /\ \A t \in TestStreams : Takers(t, DBG)' # {} => e'[t] = op'.event
            ELSE /\ handled' = <<>>
                 /\ e' = e
                 /\ cout' = <<>>
                 /\ file' = <<>>
         /\ (debugBuild /\ op.f = "forceDebug" /\ ~op.show) =>
                \A d \in AllStreams : Takers(d, DBG)' # {} => InSeq(d, handled')]_vars

(* a build with SHOW_DEBUG, showDebug false, the TestStream the only       *)
(* registered stream: the DBG event has reached it                         *)
C11_Witness ==
    /\ debugBuild
    /\ ~showDebug
    /\ op.f = "log"
    /\ op.level = DBG
    /\ DOMAIN streams = {"Test"}
    /\ streams["Test"] = "t1"
    /\ handled = <<"t1">>
    /\ e["t1"] = op.event
    /\ e["t1"].level = DBG

(* C12, as claimed: a log call appends the event once to the events of a   *)
(* registered ArchiveStream whose mask has the level, and leaves the       *)
(* events of the ArchiveStream as they were otherwise: one entry for every *)
(* accepted event.                                                         *)
C12_OneEntryPerEvent ==
    [][op'.f = "log" =>
         \A a \in ArchiveStreams :
             events'[a] = IF Dispatched' /\ Takers(a, op.level)' # {}
                          THEN Append(events[a], op'.event)
                          ELSE events[a]]_vars

(* C12, amended: a log call appends the event to the end of the events of  *)
(* a registered ArchiveStream once for every name under which it is        *)
(* registered while its mask has the level, so once if it has one name;    *)
(* the entries before stay as they were and in their order, no other call  *)
(* changes the events, getEvents returns them, and an entry has the level, *)
(* msg, source and code of the log call.                                   *)
C12_ArchiveKeepsAccepted ==
    [][\A a \in ArchiveStreams :
         /\ op'.f = "log" =>
              LET k == IF Dispatched' THEN Cardinality(Takers(a, op.level)') ELSE 0
              IN /\ Len(events'[a]) = Len(events[a]) + k
                 /\ \A i \in 1..Len(events[a]) : events'[a][i] = events[a][i]
                 /\ \A i \in (Len(events[a]) + 1)..Len(events'[a]) :
                       /\ events'[a][i].level = op'.level
                       /\ \E args \in LogArgs :
                             /\ events'[a][i].msg = args[1]
                             /\ events'[a][i].source = args[2]
                             /\ events'[a][i].code = args[3]
         /\ op'.f # "log" => events'[a] = events[a]
         /\ (op'.f = "getEvents" /\ op'.stream = a) => ret' = events[a]]_vars

(* getEvents returns an INFO event and then an ERR event, the ArchiveStream *)
(* registered under one name with the mask of DBG, INFO and ERR            *)
C12_Witness ==
    /\ op.f = "getEvents"
    /\ ret = events["a1"]
    /\ Len(ret) = 2
    /\ ret[1].level = INFO /\ ret[1].msg = info_msg
    /\ ret[2].level = ERR /\ ret[2].code = C0002
    /\ levels["a1"] = 11
    /\ \E n \in DOMAIN streams : streams[n] = "a1"

(* C13: a stream has the mask 31 when it is constructed, the caller's as   *)
(* well as the two of Log::getInstance, and so takes all five levels;      *)
(* setLevels(M) makes M the mask whatever the mask was, also right after   *)
(* another setLevels and on a registered stream; the log call that comes   *)
(* next runs the handle of the stream, if registered, exactly for the      *)
(* levels of M.                                                            *)
C13_SetLevelsReplaces ==
    [][/\ op.f = "init" =>
            \A d \in userStreams :
                levels[d] = 31 /\ \A l \in LEVELS : HasBit(levels[d], l)
       /\ (~instance /\ instance') =>
            \A d \in DefaultObjects :
                levels'[d] = 31 /\ \A l \in LEVELS : HasBit(levels'[d], l)
       /\ op'.f = "setLevels" =>
            /\ levels'[op'.stream] = op'.mask
            /\ \A l \in LEVELS : Accepts(levels'[op'.stream], l) <=> HasBit(op'.mask, l)
       /\ (op.f = "setLevels" /\ op'.f = "log" /\ Dispatched'
              /\ \E n \in DOMAIN streams : streams[n] = op.stream) =>
            (InSeq(op.stream, handled') <=> HasBit(op.mask, op'.level))]_vars

(* the TestStream, registered, holds a DBG event; its mask is now that of  *)
(* WARNING, CRITICAL and ERR, and an INFO event has not reached it         *)
C13_Witness ==
    /\ op.f = "log"
    /\ op.level = INFO
    /\ "Test" \in DOMAIN streams /\ streams["Test"] = "t1"
    /\ levels["t1"] = 28
    /\ ~InSeq("t1", handled)
    /\ handled # <<>>
    /\ e["t1"].level = DBG

(* C14, as claimed: there is no instance before the first call, and there  *)
(* is one after a call of getStream, addStream, removeStream, forceDebug   *)
(* or log, whichever comes first, a suppressed DBG log call included; an   *)
(* instance, once there, stays.                                            *)
C14_ActiveAfterAnyCall ==
    [][/\ op.f = "init" => ~instance
       /\ op'.f \in {"getStream", "addStream", "removeStream", "forceDebug", "log"}
            => instance'
       /\ instance => instance']_vars

(* C14, amended: there is no instance before the first call; there is one  *)
(* after a call of getStream, addStream, removeStream or of a log call     *)
(* that is not suppressed; forceDebug and a suppressed DBG log call do not *)
(* make one, so that there is still none after them if there was none; an  *)
(* instance, once there, stays.                                            *)
C14_ActiveAfterRegistryUse ==
    [][/\ op.f = "init" => ~instance
       /\ (op'.f \in {"getStream", "addStream", "removeStream"} \/ Dispatched')
            => instance'
       /\ (op'.f = "forceDebug" \/ Suppressed') => (instance' = instance)
       /\ instance => instance']_vars

(* forceDebug(true) has left no instance, the DBG log call after it has    *)
(* made one: both defaults have the event                                  *)
C14_Witness ==
    /\ instance
    /\ ~debugBuild
    /\ showDebug
    /\ op.f = "log"
    /\ op.level = DBG
    /\ streams = DefaultStreams
    /\ handled = <<DefaultConsole, DefaultFile>>
    /\ e["t1"] = DefaultEvent

(* C15: when a log call that is not suppressed has returned, every         *)
(* registered stream that takes the level has run its handle for the       *)
(* event: the ArchiveStream has the event as its last entry, std::cout and *)
(* log.txt have its text. Nothing is left to be delivered later: a call    *)
(* that is not a log call runs no handle, stores and writes nothing. After *)
(* two log calls in a row the ArchiveStream holds the entries of the first *)
(* event before those of the second.                                       *)
C15_DispatchSynchronous ==
    [][/\ (op'.f = "log" /\ Dispatched') =>
            /\ \A d \in AllStreams : Takers(d, op.level)' # {} => InSeq(d, handled')
            /\ \A a \in ArchiveStreams :
                  Takers(a, op.level)' # {} =>
                      /\ events'[a] # <<>>
                      /\ events'[a][Len(events'[a])] = op'.event
            /\ (\E d \in ConsoleStreams : Takers(d, op.level)' # {}) =>
                  InSeq(toString(op'.event), cout')
            /\ (\E d \in TextFileStreams : Takers(d, op.level)' # {}) =>
                  InSeq(toString(op'.event), file')
       /\ op'.f # "log" =>
            /\ handled' = <<>>
            /\ events' = events /\ e' = e /\ disk' = disk
            /\ cout' = <<>> /\ file' = <<>>
       /\ (op.f = "log" /\ Dispatched /\ op'.f = "log" /\ Dispatched') =>
            \A a \in ArchiveStreams :
                LET k1 == Cardinality(Takers(a, op.level))
                    k2 == Cardinality(Takers(a, op.level)')
                    n == Len(events'[a])
                IN /\ n >= k1 + k2
                   /\ \A i \in 1..n :
                         /\ i > n - k2 => events'[a][i] = op'.event
                         /\ (i > n - k2 - k1 /\ i <= n - k2) => events'[a][i] = op.event]_vars

(* two log calls have returned: the ArchiveStream, registered under one    *)
(* name, holds the WARNING event of the first and then the CRITICAL event  *)
(* of the second, and std::cout has the text of the second                 *)
C15_Witness ==
    /\ op.f = "log"
    /\ op.level = CRITICAL
    /\ Cardinality(Takers("a1", CRITICAL)) = 1
    /\ handled = <<"a1", DefaultConsole>>
    /\ Len(events["a1"]) = 2
    /\ events["a1"][1].level = WARNING
    /\ events["a1"][2] = op.event
    /\ cout = <<toString(op.event)>>

(* the streams that stand under some name of map *)
Registered(map) == {map[n] : n \in DOMAIN map}

RECURSIVE Flat(_)
Flat(ws) == IF ws = <<>> THEN <<>> ELSE ws[1] \o Flat(Tail(ws))

C17_WitnessAppended ==
    /\ op.f = "log"
    /\ op.level = WARNING
    /\ file = <<toString(op.event)>>
    /\ Flat(disk) = toString([op.event EXCEPT !.level = ERR]) \o toString(op.event)

(* C18: with threads, a thread that changes the map of the Log object is   *)
(* never in it together with a thread that changes or walks the same map,  *)
(* and two threads are never in the handle of the same stream together.    *)
C18_RegistryExclusive ==
    \A t \in Threads : \A u \in Threads \ {t} :
        /\ ~(/\ Mutating(t)
             /\ Mutating(u) \/ Iterating(u)
             /\ threads[t].inst = threads[u].inst)
        /\ ~(/\ threads[t].pc = "handle"
             /\ threads[u].pc = "handle"
             /\ threads[t].in = threads[u].in)

(* the threads that are making a Log object or registering its two streams *)
Creating == {t \in Threads : threads[t].pc \in {"new", "seedFile", "seedConsole"}}

(* C19: with threads, new Log() is executed at most once and one thread at *)
(* most registers the two default streams; a name that is registered with  *)
(* the Log object of Log::instance stays registered with it until a        *)
(* removeStream of that name ends.                                         *)
C19_SingleInstance ==
    [][/\ Len(logs') <= 1
       /\ Cardinality(Creating') <= 1
       /\ \A n \in Names :
            (/\ current # 0
             /\ n \in DOMAIN logs[current]
             /\ n \notin DOMAIN logs'[current'])
            => \E t \in Threads :
                 /\ Mutating(t)
                 /\ threads[t].f = "removeStream"
                 /\ threads[t].name = n
                 /\ threads'[t].pc = "idle"]_vars

(* C20: on an instance, a log call leaves the registry, the masks and      *)
(* showDebug as they are; forceDebug changes showDebug alone; setLevels    *)
(* changes the mask of its stream alone; addStream and removeStream leave  *)
(* what every other name stands for, the masks and showDebug as they are.  *)
C20_Frame ==
    [][instance =>
         /\ op'.f = "log" =>
              streams' = streams /\ levels' = levels /\ showDebug' = showDebug
         /\ op'.f = "forceDebug" =>
              streams' = streams /\ levels' = levels /\ showDebug' = op'.show
         /\ op'.f = "setLevels" =>
              /\ streams' = streams
              /\ showDebug' = showDebug
              /\ \A d \in AllStreams \ {op'.stream} : levels'[d] = levels[d]
         /\ op'.f \in {"addStream", "removeStream"} =>
              /\ levels' = levels
              /\ showDebug' = showDebug
              /\ \A n \in Names \ {op'.name} :
                    /\ (n \in DOMAIN streams') = (n \in DOMAIN streams)
                    /\ n \in DOMAIN streams => streams'[n] = streams[n]]_vars

(* removeStream has returned the caller's ConsoleStream; Test still stands *)
(* for the TestStream with its mask of DBG, INFO and ERR, defaultTextFile  *)
(* for its default, and showDebug is still true                            *)
C20_Witness ==
    /\ instance
    /\ op.f = "removeStream"
    /\ op.name = "defaultConsole"
    /\ ret = "c2"
    /\ DOMAIN streams = {"Test", "defaultTextFile"}
    /\ streams["Test"] = "t1"
    /\ streams["defaultTextFile"] = DefaultFile
    /\ levels["t1"] = 11
    /\ levels["c2"] = 28
    /\ showDebug

====
